---- MODULE Spec2Model ----
(***************************************************************************)
(* Model of build_padded_ktx.py: the script that loads the source tiles,   *)
(* extrudes their edges into a PAD-wide border, lays the padded tiles out  *)
(* side by side in an atlas and runs toktx on the atlas image.             *)
(*                                                                         *)
(* An image is a record [w, h, px]: px maps <<x, y>> (0-based, x the       *)
(* column) to an RGBA pixel <<r, g, b, a>> of 8-bit channels.              *)
(***************************************************************************)
EXTENDS Integers, Sequences, FiniteSets, TLC

\* ---------------------------------------------------------------- bounds
MaxW == 2        \* source tile widths are 1..MaxW
MaxH == 2        \* source tile heights are 1..MaxH
MaxPad == 2      \* PAD ranges over -1..MaxPad
MaxTiles == 2    \* the tile list has 1..MaxTiles entries

\* ------------------------------------------------------- program constants
OUT_PADDED_DIR == "assets/padded_tiles"
ATLAS_PNG == "assets/texture_atlas_padded.png"
ATLAS_KTX2 == "assets/texture_atlas.ktx2"
TOKTX == "C:\\Program Files\\KTX-Software\\bin\\toktx.exe"

\* ------------------------------------------------------------ pixel level
Blank == <<0, 0, 0, 0>>

\* Pillow's MULDIV255(a, b, tmp): tmp = a*b + 128, ((tmp >> 8) + tmp) >> 8.
MULDIV255(a, b) == LET tmp == a * b + 128 IN ((tmp \div 256) + tmp) \div 256

CLIP8(v) == IF v < 0 THEN 0 ELSE IF v > 255 THEN 255 ELSE v

\* convert("RGBa"): premultiply the colour channels by alpha.
rgbA2rgba(p) ==
    <<MULDIV255(p[1], p[4]), MULDIV255(p[2], p[4]), MULDIV255(p[3], p[4]), p[4]>>

\* convert("RGBA") of an RGBa pixel: divide the colour channels by alpha.
rgba2rgbA(p) ==
    IF p[4] = 255 \/ p[4] = 0
    THEN p
    ELSE <<CLIP8((255 * p[1]) \div p[4]), CLIP8((255 * p[2]) \div p[4]),
           CLIP8((255 * p[3]) \div p[4]), p[4]>>

\* ------------------------------------------------------------ image level
Coords(w, h) == (0 .. (w - 1)) \X (0 .. (h - 1))

\* Image.new("RGBA", (w, h)): every pixel blank. Requires w, h >= 0.
New(w, h) == [w |-> w, h |-> h, px |-> [p \in Coords(w, h) |-> Blank]]

\* Image.paste(src, (ox, oy)) without a mask: the box is extended to src's
\* size, clipped to dst, and the pixels are copied (no blending).
Paste(dst, src, ox, oy) ==
    [dst EXCEPT !.px =
        [p \in Coords(dst.w, dst.h) |->
            IF /\ ox <= p[1] /\ p[1] < ox + src.w
               /\ oy <= p[2] /\ p[2] < oy + src.h
            THEN src.px[<<p[1] - ox, p[2] - oy>>]
            ELSE dst.px[p]]]

\* Image.crop((x0, y0, x1, y1)): the box lies inside the image everywhere it
\* is used here; pixels outside the image would be blank.
Crop(im, x0, y0, x1, y1) ==
    [w |-> x1 - x0, h |-> y1 - y0,
     px |-> [p \in Coords(x1 - x0, y1 - y0) |->
                IF <<p[1] + x0, p[2] + y0>> \in Coords(im.w, im.h)
                THEN im.px[<<p[1] + x0, p[2] + y0>>]
                ELSE Blank]]

\* Image.resize raises ValueError ("height and width must be > 0") for a
\* target size with a component below 1, unless it equals the image's size.
ResizeFails(im, nw, nh) == (<<nw, nh>> # <<im.w, im.h>>) /\ (nw < 1 \/ nh < 1)

\* Image.resize((nw, nh)) of an RGBA image with the default filter, for an
\* image that is 1 pixel wide in every dimension that changes (the only use
\* in the script).  Same size: a copy.  Otherwise the image is converted to
\* premultiplied alpha, resampled (a 1-pixel extent has a single source pixel
\* of normalised weight 1, so resampling replicates it) and converted back.
Resize(im, nw, nh) ==
    IF <<nw, nh>> = <<im.w, im.h>>
    THEN im
    ELSE [w |-> nw, h |-> nh,
          px |-> [p \in Coords(nw, nh) |->
                    rgba2rgbA(rgbA2rgba(
                        im.px[<<IF im.w = 1 THEN 0 ELSE p[1],
                                IF im.h = 1 THEN 0 ELSE p[2]>>]))]]

\* ------------------------------------------------------------ source files
\* The file behind a tile path: unreadable, or a w x h image of alpha a whose
\* pixels differ at every position and between tiles.  The tiles of one run
\* share their alpha: opaque (255) or half transparent (128).
Alphas == {255, 128}

Unreadable == [ok |-> FALSE, w |-> 0, h |-> 0, a |-> 0]

TileFiles(a) ==
    {Unreadable} \cup
    [ok : {TRUE}, w : 1 .. MaxW, h : 1 .. MaxH, a : {a}]

SourcePixel(i, x, y, a) == <<50 * (x + 1), 50 * (y + 1), 60 * (i + 1) + 15, a>>

\* Image.open(path).convert("RGBA") of the readable file f, tile number i.
Decode(f, i) ==
    [w |-> f.w, h |-> f.h,
     px |-> [p \in Coords(f.w, f.h) |-> SourcePixel(i, p[1], p[2], f.a)]]

PadValues == (-1) .. MaxPad

ReturnCodes == {0, 1, 2}

\* ------------------------------------------------------------------ state
VARIABLES
    TILES,         \* the files behind the configured tile paths, in order
    PAD,           \* the padding width
    pc,            \* position in the script
    i,             \* index of the tile loop
    img,           \* the decoded source tile
    padded,        \* the padded tile under construction
    edges,         \* the strips left, right, top, bottom
    corners,       \* the blocks tl, tr, bl, br
    padded_tiles,  \* the list of finished padded tiles
    atlas,         \* the atlas buffer
    x,             \* paste offset in the atlas
    k,             \* number of tiles pasted into the atlas
    dir_made,      \* OUT_PADDED_DIR exists
    files,         \* the image files written, by path
    cmd,           \* the toktx argument list
    runs,          \* the command lines handed to subprocess.run
    exits,         \* the exit codes of the processes that ran
    trace,         \* the I/O operations and messages so far, in order
    error          \* the uncaught exception, if any

vars == <<TILES, PAD, pc, i, img, padded, edges, corners, padded_tiles, atlas, x, k,
          dir_made, files, cmd, runs, exits, trace, error>>

NoImage == New(0, 0)

NoEdges ==
    [left |-> NoImage, right |-> NoImage, top |-> NoImage, bottom |-> NoImage]

NoCorners == [tl |-> NoImage, tr |-> NoImage, bl |-> NoImage, br |-> NoImage]

NoError == [type |-> "none", cmd |-> <<>>, returncode |-> 0]

Event(op, n) == [op |-> op, n |-> n]

TilePath(n) == <<OUT_PADDED_DIR, n>>

AtlasPath == <<ATLAS_PNG, 0>>

Ktx2Path == <<ATLAS_KTX2, 0>>

Init ==
    /\ \E a \in Alphas :
          TILES \in UNION {[1 .. n -> TileFiles(a)] : n \in 1 .. MaxTiles}
    /\ PAD \in PadValues
    /\ pc = "makedirs"
    /\ i = 0
    /\ img = NoImage
    /\ padded = NoImage
    /\ edges = NoEdges
    /\ corners = NoCorners
    /\ padded_tiles = <<>>
    /\ atlas = NoImage
    /\ x = 0
    /\ k = 0
    /\ dir_made = FALSE
    /\ files = <<>>
    /\ cmd = <<>>
    /\ runs = <<>>
    /\ exits = <<>>
    /\ trace = <<>>
    /\ error = NoError

env == <<TILES, PAD>>

work == <<img, padded, edges, corners>>

asm == <<padded_tiles, atlas, x, k>>

out == <<dir_made, files, cmd, runs, exits>>

Raise(type) ==
    /\ error' = [type |-> type, cmd |-> <<>>, returncode |-> 0]
    /\ pc' = "done"

\* os.makedirs(OUT_PADDED_DIR, exist_ok=True)
Makedirs ==
    /\ pc = "makedirs"
    /\ dir_made' = TRUE
    /\ pc' = "open"
    /\ UNCHANGED <<env, i, work, asm, files, cmd, runs, exits, trace, error>>

\* Variant of Open that skips a tile it cannot read and goes on with the next
\* (at the last tile: goes on to the atlas).
OpenSkippingUnreadable ==
    /\ pc = "open"
    /\ i < Len(TILES)
    /\ trace' = trace \o <<Event("loading", i), Event("open", i)>>
    /\ IF TILES[i + 1].ok
       THEN /\ img' = Decode(TILES[i + 1], i)
            /\ pc' = "new"
            /\ UNCHANGED <<i, padded_tiles>>
       ELSE /\ i' = i + 1
            /\ padded_tiles' = Append(padded_tiles, NoImage)
            /\ pc' = IF i + 1 < Len(TILES) THEN "open" ELSE "atlas"
            /\ UNCHANGED img
    /\ UNCHANGED <<env, padded, edges, corners, atlas, x, k, out, error>>

\* Loop head and load: print("Loading:", path); Image.open(path).convert("RGBA")
\* An unreadable file raises (FileNotFoundError / UnidentifiedImageError,
\* both OSError) and nothing catches it.
Open ==
    /\ pc = "open"
    /\ i < Len(TILES)
    /\ trace' = trace \o <<Event("loading", i), Event("open", i)>>
    /\ IF TILES[i + 1].ok
       THEN /\ img' = Decode(TILES[i + 1], i)
            /\ pc' = "new"
            /\ UNCHANGED error
       ELSE /\ Raise("OSError")
            /\ UNCHANGED img
    /\ UNCHANGED <<env, i, padded, edges, corners, asm, out>>

\* pw, ph = w + PAD*2, h + PAD*2
PaddedSize(w, h, P) == <<w + P * 2, h + P * 2>>

\* padded = Image.new("RGBA", (pw, ph)); Image.new raises ValueError for a
\* negative width or height.
NewPadded ==
    /\ pc = "new"
    /\ LET size == PaddedSize(img.w, img.h, PAD)
       IN IF size[1] < 0 \/ size[2] < 0
          THEN /\ Raise("ValueError")
               /\ UNCHANGED padded
          ELSE /\ padded' = New(size[1], size[2])
               /\ pc' = "paste_centre"
               /\ UNCHANGED error
    /\ UNCHANGED <<env, i, img, edges, corners, asm, out, trace>>

\* padded.paste(img, (PAD, PAD))
PasteCentre ==
    /\ pc = "paste_centre"
    /\ padded' = Paste(padded, img, PAD, PAD)
    /\ pc' = "edges"
    /\ UNCHANGED <<env, i, img, edges, corners, asm, out, trace, error>>

\* The four 1-pixel edge strips of the source, before the resize.
EdgeCrops(im) ==
    [left   |-> Crop(im, 0,        0,        1,    im.h),
     right  |-> Crop(im, im.w - 1, 0,        im.w, im.h),
     top    |-> Crop(im, 0,        0,        im.w, 1),
     bottom |-> Crop(im, 0,        im.h - 1, im.w, im.h)]

\* left = img.crop(...).resize((PAD, h)), ..., bottom = ....resize((w, PAD));
\* the first resize that cannot be done raises ValueError.
CropEdges ==
    /\ pc = "edges"
    /\ LET c == EdgeCrops(img)
       IN IF \/ ResizeFails(c.left, PAD, img.h)
             \/ ResizeFails(c.right, PAD, img.h)
             \/ ResizeFails(c.top, img.w, PAD)
             \/ ResizeFails(c.bottom, img.w, PAD)
          THEN /\ Raise("ValueError")
               /\ UNCHANGED edges
          ELSE /\ edges' = [left   |-> Resize(c.left, PAD, img.h),
                            right  |-> Resize(c.right, PAD, img.h),
                            top    |-> Resize(c.top, img.w, PAD),
                            bottom |-> Resize(c.bottom, img.w, PAD)]
               /\ pc' = "paste_left"
               /\ UNCHANGED error
    /\ UNCHANGED <<env, i, img, padded, corners, asm, out, trace>>

\* One paste of the padding loop: padded.paste(src, (ox, oy)).
PasteStep(at, src, ox, oy, next) ==
    /\ pc = at
    /\ padded' = Paste(padded, src, ox, oy)
    /\ pc' = next
    /\ UNCHANGED <<env, i, img, edges, corners, asm, out, trace, error>>

\* padded.paste(left, (0, PAD))
PasteLeft == PasteStep("paste_left", edges.left, 0, PAD, "paste_right")

\* Variant of PasteRight that starts one column early, on the centre's last
\* column.
PasteRightOneColumnEarly ==
    PasteStep("paste_right", edges.right, PAD + img.w - 1, PAD, "paste_top")

\* padded.paste(right, (PAD+w, PAD))
PasteRight == PasteStep("paste_right", edges.right, PAD + img.w, PAD, "paste_top")

\* padded.paste(top, (PAD, 0))
PasteTop == PasteStep("paste_top", edges.top, PAD, 0, "paste_bottom")

\* padded.paste(bottom, (PAD, PAD+h))
PasteBottom == PasteStep("paste_bottom", edges.bottom, PAD, PAD + img.h, "corners")

\* The four 1 x 1 corner pixels of the source, before the resize.
CornerCrops(im) ==
    [tl |-> Crop(im, 0,        0,        1,    1),
     tr |-> Crop(im, im.w - 1, 0,        im.w, 1),
     bl |-> Crop(im, 0,        im.h - 1, 1,    im.h),
     br |-> Crop(im, im.w - 1, im.h - 1, im.w, im.h)]

\* tl = img.crop((0, 0, 1, 1)).resize((PAD, PAD)), and tr, bl, br.
CropCorners ==
    /\ pc = "corners"
    /\ LET c == CornerCrops(img)
       IN IF ResizeFails(c.tl, PAD, PAD)
          THEN /\ Raise("ValueError")
               /\ UNCHANGED corners
          ELSE /\ corners' = [tl |-> Resize(c.tl, PAD, PAD),
                              tr |-> Resize(c.tr, PAD, PAD),
                              bl |-> Resize(c.bl, PAD, PAD),
                              br |-> Resize(c.br, PAD, PAD)]
               /\ pc' = "paste_tl"
               /\ UNCHANGED error
    /\ UNCHANGED <<env, i, img, padded, edges, asm, out, trace>>

\* padded.paste(tl, (0, 0))
PasteTL == PasteStep("paste_tl", corners.tl, 0, 0, "paste_tr")

\* padded.paste(tr, (PAD + w, 0))
PasteTR == PasteStep("paste_tr", corners.tr, PAD + img.w, 0, "paste_bl")

\* padded.paste(bl, (0, PAD + h))
PasteBL == PasteStep("paste_bl", corners.bl, 0, PAD + img.h, "paste_br")

\* padded.paste(br, (PAD + w, PAD + h))
PasteBR == PasteStep("paste_br", corners.br, PAD + img.w, PAD + img.h, "save_tile")

\* padded.save(out_tile); padded_tiles.append(padded); then the next tile, or
\* the end of the loop.
SaveTile ==
    /\ pc = "save_tile"
    /\ files' = (TilePath(i) :> padded) @@ files
    /\ padded_tiles' = Append(padded_tiles, padded)
    /\ trace' = trace \o <<Event("save_tile", i)>>
    /\ i' = i + 1
    /\ pc' = IF i + 1 < Len(TILES) THEN "open" ELSE "atlas"
    /\ UNCHANGED <<env, work, atlas, x, k, dir_made, cmd, runs, exits, error>>

\* Variant of AtlasSize that makes the atlas as tall as the last tile.
AtlasSizeLastHeight(tiles) == <<tiles[1].w * Len(tiles), tiles[Len(tiles)].h>>

\* pw, ph = padded_tiles[0].size; the atlas is (pw * len(padded_tiles), ph).
AtlasSize(tiles) == <<tiles[1].w * Len(tiles), tiles[1].h>>

\* x += pw, with pw the first padded tile's width.
AtlasAdvance(tiles, n) == tiles[1].w

\* print("Created padded tiles."); atlas = Image.new(...); x = 0
NewAtlas ==
    /\ pc = "atlas"
    /\ LET size == AtlasSize(padded_tiles)
       IN atlas' = New(size[1], size[2])
    /\ x' = 0
    /\ k' = 0
    /\ trace' = trace \o <<Event("created", 0)>>
    /\ pc' = "paste_atlas"
    /\ UNCHANGED <<env, i, work, padded_tiles, out, error>>

\* One iteration of: for tile in padded_tiles: atlas.paste(tile, (x, 0)); x += pw
PasteAtlas ==
    /\ pc = "paste_atlas"
    /\ k < Len(padded_tiles)
    /\ atlas' = Paste(atlas, padded_tiles[k + 1], x, 0)
    /\ x' = x + AtlasAdvance(padded_tiles, k + 1)
    /\ k' = k + 1
    /\ pc' = IF k + 1 < Len(padded_tiles) THEN "paste_atlas" ELSE "save_atlas"
    /\ UNCHANGED <<env, i, work, padded_tiles, out, trace, error>>

\* atlas.save(ATLAS_PNG); print("Atlas saved:", ATLAS_PNG)
SaveAtlas ==
    /\ pc = "save_atlas"
    /\ files' = (AtlasPath :> atlas) @@ files
    /\ trace' = trace \o <<Event("save_atlas", 0), Event("atlas_saved", 0)>>
    /\ pc' = "cmd"
    /\ UNCHANGED <<env, i, work, asm, dir_made, cmd, runs, exits, error>>

\* Variant of ToktxCmd with the input and the output path exchanged.
ToktxCmdSwapped == <<TOKTX, "--genmipmap", "--t2", ATLAS_PNG, ATLAS_KTX2>>

\* cmd = [TOKTX, "--genmipmap", "--t2", ATLAS_KTX2, ATLAS_PNG]
ToktxCmd == <<TOKTX, "--genmipmap", "--t2", ATLAS_KTX2, ATLAS_PNG>>

\* cmd = [...]; print("Running:", " ".join(cmd))
BuildCmd ==
    /\ pc = "cmd"
    /\ cmd' = ToktxCmd
    /\ trace' = trace \o <<Event("running", 0)>>
    /\ pc' = "run"
    /\ UNCHANGED <<env, i, work, asm, dir_made, files, runs, exits, error>>

\* Variant of CheckFails that lets return code 1 pass.
CheckFailsAboveOne(returncode) == returncode > 1

\* check=True: a non-zero return code raises CalledProcessError.
CheckFails(returncode) == returncode # 0

\* subprocess.run(cmd, check=True), the tool starting and exiting with rc.
\* The tool writes the container when it succeeds.
RunTool ==
    /\ pc = "run"
    /\ runs' = Append(runs, cmd)
    /\ trace' = trace \o <<Event("run", 0)>>
    /\ \E rc \in ReturnCodes :
        /\ exits' = Append(exits, rc)
        /\ IF CheckFails(rc)
           THEN /\ error' = [type |-> "CalledProcessError", cmd |-> cmd,
                             returncode |-> rc]
                /\ pc' = "done"
                /\ UNCHANGED files
           ELSE /\ files' = (Ktx2Path :> NoImage) @@ files
                /\ pc' = "report"
                /\ UNCHANGED error
    /\ UNCHANGED <<env, i, work, asm, dir_made, cmd>>

\* subprocess.run(cmd, check=True), the executable not starting:
\* FileNotFoundError (an OSError) from the process launch.
RunToolMissing ==
    /\ pc = "run"
    /\ runs' = Append(runs, cmd)
    /\ trace' = trace \o <<Event("run", 0)>>
    /\ Raise("OSError")
    /\ UNCHANGED <<env, i, work, asm, dir_made, files, cmd, exits>>

\* print("Saved:", ATLAS_KTX2)
ReportSaved ==
    /\ pc = "report"
    /\ trace' = trace \o <<Event("saved", 0)>>
    /\ pc' = "done"
    /\ UNCHANGED <<env, i, work, asm, out, error>>

Next ==
    \/ Makedirs
    \/ Open
    \/ NewPadded
    \/ PasteCentre
    \/ CropEdges
    \/ PasteLeft
    \/ PasteRight
    \/ PasteTop
    \/ PasteBottom
    \/ CropCorners
    \/ PasteTL
    \/ PasteTR
    \/ PasteBL
    \/ PasteBR
    \/ SaveTile
    \/ NewAtlas
    \/ PasteAtlas
    \/ SaveAtlas
    \/ BuildCmd
    \/ RunTool
    \/ RunToolMissing
    \/ ReportSaved

Spec == Init /\ [][Next]_vars

\* ------------------------------------------------------------ properties
\* The source tile behind entry n (1-based) of the tile list.
SourceTile(n) == Decode(TILES[n], n - 1)

\* The w x h region of pt at offset (P, P) equals src pixel for pixel.
CentreEquals(pt, src, P) ==
    \A p \in Coords(src.w, src.h) :
        /\ <<p[1] + P, p[2] + P>> \in Coords(pt.w, pt.h)
        /\ pt.px[<<p[1] + P, p[2] + P>>] = src.px[p]

Clamp(v, lo, hi) == IF v < lo THEN lo ELSE IF v > hi THEN hi ELSE v

InCentre(p, src, P) ==
    /\ P <= p[1] /\ p[1] < P + src.w
    /\ P <= p[2] /\ p[2] < P + src.h

\* Every pixel of pt outside the centre is the nearest edge or corner pixel
\* of src.
BorderReplicates(pt, src, P) ==
    \A p \in Coords(pt.w, pt.h) :
        InCentre(p, src, P) \/
        pt.px[p] = src.px[<<Clamp(p[1] - P, 0, src.w - 1),
                            Clamp(p[2] - P, 0, src.h - 1)>>]

AfterCentrePaste ==
    {"edges", "paste_left", "paste_right", "paste_top", "paste_bottom",
     "corners", "paste_tl", "paste_tr", "paste_bl", "paste_br", "save_tile"}

\* C1: for PAD >= 0, from the centre paste on and through every edge and
\* corner paste, the W x H region of the padded buffer at offset (PAD, PAD)
\* equals the source tile pixel for pixel; the same holds of every finished
\* padded tile and of the padded-tile file written for it.
C1_CentreIsSource ==
    PAD >= 0 =>
        /\ pc \in AfterCentrePaste => CentreEquals(padded, img, PAD)
        /\ \A n \in 1 .. Len(padded_tiles) :
            /\ CentreEquals(padded_tiles[n], SourceTile(n), PAD)
            /\ CentreEquals(files[TilePath(n - 1)], SourceTile(n), PAD)

\* A 2 x 2 tile with 0 < PAD < min(W, H) has been through all nine pastes.
C1_Witness ==
    /\ pc = "save_tile"
    /\ PAD >= 1 /\ PAD < img.w /\ PAD < img.h
    /\ padded.w = img.w + 2 * PAD

\* C2: for PAD >= 1, after the nine pastes every pixel of the padded buffer
\* outside the centre region equals the source pixel at the clamped
\* position (edge rows and columns replicated, corner blocks constant).
C2_BorderIsNearestSourcePixel ==
    (pc = "save_tile" /\ PAD >= 1) => BorderReplicates(padded, img, PAD)

\* C5: with PAD = 0 the padding step raises no error and the padded tile
\* equals the source tile.
C5_ZeroPadIsIdentity ==
    PAD = 0 =>
        /\ error.type # "ValueError"
        /\ pc = "save_tile" => padded = img
RECURSIVE SumWidths(_, _)
\* The sum of the widths of tiles[1 .. n].
SumWidths(tiles, n) == IF n = 0 THEN 0 ELSE SumWidths(tiles, n - 1) + tiles[n].w

AtlasAllocated == pc \in {"paste_atlas", "save_atlas", "cmd", "run", "report"}
                  \/ (pc = "done" /\ runs # <<>>)

AtlasAssembled == pc \in {"save_atlas", "cmd", "run", "report"}
                  \/ (pc = "done" /\ runs # <<>>)

\* C3: the atlas buffer is as wide as the sum of the padded tiles' widths and
\* as high as the first padded tile.
C3_AtlasWidthIsSumOfWidths ==
    AtlasAllocated =>
        /\ atlas.w = SumWidths(padded_tiles, Len(padded_tiles))
        /\ atlas.h = padded_tiles[1].h

\* C4: in the assembled atlas, tile N starts at the column that is the sum
\* of the widths of the tiles before it, at row 0, and the atlas holds tile
\* N's pixels unchanged from that column on.
C4_TilesSideBySide ==
    AtlasAssembled =>
        \A n \in 1 .. Len(padded_tiles) :
            \A p \in Coords(padded_tiles[n].w, padded_tiles[n].h) :
                LET q == <<SumWidths(padded_tiles, n - 1) + p[1], p[2]>>
                IN /\ q \in Coords(atlas.w, atlas.h)
                   /\ atlas.px[q] = padded_tiles[n].px[p]

\* The padding width is invalid for the file f.
PadInvalid(f) == f.ok /\ (PAD < 0 \/ PAD >= f.w \/ PAD >= f.h)

\* C6: when PAD is invalid for a tile, the run ends in a ConfigError, no
\* output directory is made and no file is written.
C6_InvalidPadIsConfigError ==
    (\E n \in 1 .. Len(TILES) : PadInvalid(TILES[n])) =>
        /\ ~dir_made
        /\ files = <<>>
        /\ pc = "done" => error.type = "ConfigError"

HasEvent(op) == \E a \in 1 .. Len(trace) : trace[a].op = op

\* C7: a non-zero exit code of the tool ends the run in a CalledProcessError
\* that carries the command line and the exit code; "Saved:" is not printed,
\* the tool has run once, every padded-tile file and the atlas file are still
\* there; and "Saved:" is printed only after exit code 0.
C7_ToolFailureIsFatal ==
    /\ (exits # <<>> /\ exits[1] # 0) =>
        /\ pc = "done"
        /\ error.type = "CalledProcessError"
        /\ error.cmd = runs[1]
        /\ error.returncode = exits[1]
        /\ ~HasEvent("saved")
        /\ Len(runs) = 1 /\ Len(exits) = 1
        /\ \A n \in 1 .. Len(TILES) : TilePath(n - 1) \in DOMAIN files
        /\ AtlasPath \in DOMAIN files
    /\ (pc = "report" \/ HasEvent("saved")) => (exits = <<0>> /\ error = NoError)

\* The tool has exited with a non-zero code.
C7_Witness ==
    /\ pc = "done"
    /\ exits = <<2>>
    /\ Len(TILES) = 2

HeightsDiffer(tiles) == \E n \in 1 .. Len(tiles) : tiles[n].h # tiles[1].h

\* C8 as stated: when a padded tile's height differs from the first one's,
\* the assembly ends in a LayoutError, no atlas image is written and the tool
\* is not invoked.
C8_HeightMismatchIsLayoutError ==
    HeightsDiffer(padded_tiles) =>
        /\ AtlasPath \notin DOMAIN files
        /\ runs = <<>>
        /\ pc = "done" => error.type = "LayoutError"

\* C8 amended: the assembly does not compare heights.  When every tile has
\* been padded and a padded tile's height differs from the first one's, no
\* error is raised by the assembly:
\* the atlas is as high as the first tile, each tile's pixels that fall in
\* its own slot and within that height are in the atlas (lower rows are cut
\* off), the atlas image is written and the tool is invoked.
C8_HeightMismatchIsAccepted ==
    (HeightsDiffer(padded_tiles) /\ Len(padded_tiles) = Len(TILES)) =>
        /\ error.type # "none" => runs # <<>>
        /\ AtlasAllocated => atlas.h = padded_tiles[1].h
        /\ AtlasAssembled =>
            \A n \in 1 .. Len(padded_tiles) :
                \A p \in Coords(padded_tiles[1].w, padded_tiles[1].h) :
                    p \in Coords(padded_tiles[n].w, padded_tiles[n].h) =>
                        atlas.px[<<(n - 1) * padded_tiles[1].w + p[1], p[2]>>]
                            = padded_tiles[n].px[p]
        /\ pc \in {"cmd", "run", "report", "done"} =>
            (AtlasPath \in DOMAIN files /\ files[AtlasPath] = atlas)
        /\ pc \in {"report", "done"} => Len(runs) = 1

\* A run with padded tiles of different heights has invoked the tool.
C8_Witness ==
    /\ pc = "done"
    /\ HeightsDiffer(padded_tiles)
    /\ padded_tiles[2].h > padded_tiles[1].h
    /\ Len(runs) = 1

RECURSIVE TileEvents(_)
\* The operations of the tile loop for tiles 0 .. n-1, in order.
TileEvents(n) ==
    IF n = 0 THEN <<>>
    ELSE TileEvents(n - 1) \o
         <<Event("loading", n - 1), Event("open", n - 1), Event("save_tile", n - 1)>>

\* The operations of a whole run over n tiles, in order.
FullRun(n) ==
    TileEvents(n) \o
    <<Event("created", 0), Event("save_atlas", 0), Event("atlas_saved", 0),
      Event("running", 0), Event("run", 0), Event("saved", 0)>>

IsPrefix(s, t) == Len(s) <= Len(t) /\ s = SubSeq(t, 1, Len(s))

\* C9: the operations of a run are an initial part of the fixed order: per
\* tile load, pad, save, in tile order; then the atlas is saved; then the
\* tool is run, once, with --genmipmap, the container path and then the
\* atlas image as its only input; "Saved:" comes last, after exit code 0.
C9_StagesInOrder ==
    /\ IsPrefix(trace, FullRun(Len(TILES)))
    /\ \A n \in 1 .. Len(padded_tiles) :
        /\ TilePath(n - 1) \in DOMAIN files
        /\ files[TilePath(n - 1)] = padded_tiles[n]
    /\ HasEvent("save_atlas") =>
        (Len(padded_tiles) = Len(TILES) /\ AtlasPath \in DOMAIN files)
    /\ Len(runs) <= 1
    /\ runs # <<>> =>
        /\ runs[1] = <<TOKTX, "--genmipmap", "--t2", ATLAS_KTX2, ATLAS_PNG>>
        /\ HasEvent("save_atlas")
    /\ HasEvent("run") <=> runs # <<>>
    /\ HasEvent("saved") => exits = <<0>>
    /\ (pc = "done" /\ error = NoError) => trace = FullRun(Len(TILES))

\* A run over two tiles has gone through every stage.
C9_Witness ==
    /\ pc = "done"
    /\ error = NoError
    /\ Len(TILES) = 2
    /\ HasEvent("saved")

CountEvents(op, n) ==
    Cardinality({a \in 1 .. Len(trace) : trace[a] = Event(op, n)})

\* C10: when tile j cannot be loaded, the run ends there with the load's
\* exception: tile j is opened at most once, no later tile is opened, no
\* tile from j on is padded, no atlas image is written and the tool is not
\* invoked.
C10_LoadFailureAborts ==
    \A j \in 1 .. Len(TILES) :
        ~TILES[j].ok =>
            /\ Len(padded_tiles) < j
            /\ CountEvents("open", j - 1) <= 1
            /\ \A a \in 1 .. Len(trace) : trace[a].n <= j - 1
            /\ ~HasEvent("created")
            /\ AtlasPath \notin DOMAIN files
            /\ runs = <<>>
            /\ CountEvents("open", j - 1) = 1 =>
                (pc = "done" /\ error.type = "OSError" /\ i = j - 1)

\* The second tile could not be loaded, after the first was padded and saved.
C10_Witness ==
    /\ pc = "done"
    /\ error.type = "OSError"
    /\ i = 1
    /\ ~TILES[2].ok
    /\ Len(padded_tiles) = 1
====
